---- MODULE Spec2Model ----
(***************************************************************************)
(* AstroFlow API (src/main.py): the chart pipeline (POST /chart) and the   *)
(* narrative engine (POST /readings) as a state machine.                   *)
(*                                                                         *)
(* Conventions of the model                                                *)
(*  - a Python str that the code lower-cases, strips or capitalises is a   *)
(*    sequence of one-character strings; Spell holds the literals;         *)
(*  - an Optional value is a record [some, v];                             *)
(*  - a longitude (a Python float) is an integer count of eighths of a     *)
(*    degree, rounded the way a binary float of 10 significant bits rounds *)
(*    (a scaled-down IEEE double: exact near zero, spaced half a degree    *)
(*    apart at 360); a planet weight is a double held exactly (Dbl);       *)
(*  - a raised exception is a response of kind "error";                    *)
(*  - a local that is read more than once is bound once, as a variable     *)
(*    ranging over a singleton: Only({body : x \in {e}}) is                 *)
(*    LET x == e IN body.                                                   *)
(***************************************************************************)
EXTENDS Integers, Sequences, FiniteSets, TLC

VARIABLES
    TOPIC_FOCUS,   \* the process-wide topic -> section keys table (mutable lists)
    pc,            \* "idle", the handler that holds the request, or "sent"
    req,           \* the request being handled (or the last one handled)
    swe,           \* what the ephemeris adapter returned to the last chart request
    resp,          \* the last response
    probe          \* an earlier build_wow_reading call, kept to compare with later ones

vars == <<TOPIC_FOCUS, pc, req, swe, resp, probe>>

-----------------------------------------------------------------------------
(* Python values *)

\* The element of a singleton.
Only(S) == CHOOSE x \in S : TRUE

NoneS == [some |-> FALSE, v |-> <<>>]
SomeS(s) == [some |-> TRUE, v |-> s]
NoneA == [some |-> FALSE, v |-> ""]
SomeA(a) == [some |-> TRUE, v |-> a]
NoneF == [some |-> FALSE, v |-> 0]
SomeF(x) == [some |-> TRUE, v |-> x]

\* `x or default`, `if x:` on an Optional[str]
TruthyS(o) == o.some /\ o.v # <<>>
TruthyA(o) == o.some /\ o.v # ""

UPPER == <<"A","B","C","D","E","F","G","H","I","J","K","L","M",
           "N","O","P","Q","R","S","T","U","V","W","X","Y","Z">>
LOWER == <<"a","b","c","d","e","f","g","h","i","j","k","l","m",
           "n","o","p","q","r","s","t","u","v","w","x","y","z">>

LowerChar(c) ==
    IF \E i \in DOMAIN UPPER : UPPER[i] = c
    THEN LOWER[CHOOSE i \in DOMAIN UPPER : UPPER[i] = c]
    ELSE c

UpperChar(c) ==
    IF \E i \in DOMAIN LOWER : LOWER[i] = c
    THEN UPPER[CHOOSE i \in DOMAIN LOWER : LOWER[i] = c]
    ELSE c

\* str.lower()
Lower(s) == [i \in 1..Len(s) |-> LowerChar(s[i])]

IsSpace(c) == c \in {" ", "\t", "\n"}

RECURSIVE LStrip(_)
LStrip(s) == IF s # <<>> /\ IsSpace(Head(s)) THEN LStrip(Tail(s)) ELSE s

RECURSIVE RStrip(_)
RStrip(s) ==
    IF s # <<>> /\ IsSpace(s[Len(s)]) THEN RStrip(SubSeq(s, 1, Len(s) - 1)) ELSE s

\* str.strip()
Strip(s) == RStrip(LStrip(s))

\* str.capitalize()
Capitalize(s) ==
    [i \in 1..Len(s) |-> IF i = 1 THEN UpperChar(s[i]) ELSE LowerChar(s[i])]

\* The string literals of the source and of the sample inputs, spelled out.
Spell == [
    love |-> <<"l","o","v","e">>,
    career |-> <<"c","a","r","e","e","r">>,
    money |-> <<"m","o","n","e","y">>,
    personal |-> <<"p","e","r","s","o","n","a","l">>,
    timing |-> <<"t","i","m","i","n","g">>,
    strengths |-> <<"s","t","r","e","n","g","t","h","s">>,
    shadow |-> <<"s","h","a","d","o","w">>,
    communication |-> <<"c","o","m","m","u","n","i","c","a","t","i","o","n">>,
    health |-> <<"h","e","a","l","t","h">>,
    friendships |-> <<"f","r","i","e","n","d","s","h","i","p","s">>,
    purpose |-> <<"p","u","r","p","o","s","e">>,
    en |-> <<"e","n">>,
    it |-> <<"i","t">>,
    es |-> <<"e","s">>,
    standard |-> <<"s","t","a","n","d","a","r","d">>,
    deep |-> <<"d","e","e","p">>,
    sun |-> <<"s","u","n">>,
    moon |-> <<"m","o","o","n">>,
    mercury |-> <<"m","e","r","c","u","r","y">>,
    venus |-> <<"v","e","n","u","s">>,
    mars |-> <<"m","a","r","s">>,
    jupiter |-> <<"j","u","p","i","t","e","r">>,
    saturn |-> <<"s","a","t","u","r","n">>,
    uranus |-> <<"u","r","a","n","u","s">>,
    neptune |-> <<"n","e","p","t","u","n","e">>,
    pluto |-> <<"p","l","u","t","o">>,
    ascendant |-> <<"a","s","c","e","n","d","a","n","t">>
]

\* The name of a spelled literal ("love" for <<"l","o","v","e">>).
Atom(s) == CHOOSE n \in DOMAIN Spell : Spell[n] = s

-----------------------------------------------------------------------------
(* Constants *)

TOPIC_NAMES == {"love", "career", "money", "personal", "timing", "strengths",
                "shadow", "communication", "health", "friendships", "purpose"}

TOPICS == {Spell[t] : t \in TOPIC_NAMES}

PLANETS == <<"sun", "moon", "mercury", "venus", "mars",
             "jupiter", "saturn", "uranus", "neptune", "pluto">>

BODIES == {PLANETS[i] : i \in DOMAIN PLANETS}

PlanetIndex(p) == CHOOSE i \in DOMAIN PLANETS : PLANETS[i] = p

SIGNS_EN == <<
    <<"A","r","i","e","s">>, <<"T","a","u","r","u","s">>,
    <<"G","e","m","i","n","i">>, <<"C","a","n","c","e","r">>,
    <<"L","e","o">>, <<"V","i","r","g","o">>,
    <<"L","i","b","r","a">>, <<"S","c","o","r","p","i","o">>,
    <<"S","a","g","i","t","t","a","r","i","u","s">>,
    <<"C","a","p","r","i","c","o","r","n">>,
    <<"A","q","u","a","r","i","u","s">>, <<"P","i","s","c","e","s">> >>

-----------------------------------------------------------------------------
(* Floats: eighths of a degree *)

Deg(n) == 8 * n

Abs(x) == IF x < 0 THEN -x ELSE x

\* The spacing of the representable values around x (10 significant bits).
Ulp(x) ==
    IF Abs(x) < Deg(128) THEN 1
    ELSE IF Abs(x) < Deg(256) THEN 2
    ELSE IF Abs(x) < Deg(512) THEN 4
    ELSE 8

\* Round to nearest representable value, ties to even.
FloatRound(x) ==
    LET u == Ulp(x)
        lo == (x \div u) * u          \* \div floors
        hi == lo + u
    IN  IF x = lo THEN x
        ELSE IF x - lo < hi - x THEN lo
        ELSE IF x - lo > hi - x THEN hi
        ELSE IF (lo \div u) % 2 = 0 THEN lo ELSE hi

\* C fmod: exact, with the sign of x.
Fmod(x, y) == IF x >= 0 THEN x % y ELSE -((-x) % y)

\* Python float `x % y` for y > 0: fmod, then `mod += y` when the signs differ.
PyMod(x, y) ==
    LET m == Fmod(x, y)
    IN  IF m # 0 /\ m < 0 THEN FloatRound(m + y) ELSE m

\* Python float `x // y` for x >= 0, y > 0.
PyFloorDiv(x, y) == x \div y

zodiac_sign_index(longitude) ==
    PyFloorDiv(PyMod(longitude, Deg(360)), Deg(30))

-----------------------------------------------------------------------------
(* Worldwide birth time handling *)

\* A raised exception, as the client sees it.
Raise(exc, status, detail) ==
    [kind |-> "error", exc |-> exc, status |-> status, detail |-> detail]

Ok(v) == [ok |-> TRUE, v |-> v]
Fail(e) == [ok |-> FALSE, err |-> e]

IsLeap(y) == (y % 4 = 0 /\ y % 100 # 0) \/ y % 400 = 0

DaysIn(y, m) ==
    IF m = 2 THEN (IF IsLeap(y) THEN 29 ELSE 28)
    ELSE IF m \in {4, 6, 9, 11} THEN 30 ELSE 31

\* datetime.strptime(f"{b.date} {b.time}", "%Y-%m-%d %H:%M"): the text matches
\* the format (wf) and names a calendar date and a 24h clock time.
parse_local_datetime(b) ==
    IF /\ b.date.wf /\ b.time.wf
       /\ b.date.y \in 1..9999 /\ b.date.m \in 1..12
       /\ b.date.d \in 1..DaysIn(b.date.y, b.date.m)
       /\ b.time.h \in 0..23 /\ b.time.mi \in 0..59
    THEN Ok([y |-> b.date.y, m |-> b.date.m, d |-> b.date.d,
             h |-> b.time.h, mi |-> b.time.mi])
    ELSE Fail(Raise("HTTPException", 422, "Invalid birth date/time"))

\* `raise HTTPEException(...)`: the name is not defined, so evaluating it
\* raises NameError before any HTTPException is built.
resolve_tz_name(b) ==
    IF TruthyA(b.tz) THEN Ok(b.tz.v)
    ELSE Fail(Raise("NameError", 500, "name 'HTTPEException' is not defined"))

\* The zone database: the zones the sample inputs name.
ZONES == {"UTC", "Europe/Rome", "America/New_York"}

\* Minutes east of UTC at a local time; daylight saving at month granularity
\* (the sample dates keep clear of the transition months).
UtcOffset(zone, dt) ==
    LET dst == dt.m \in 4..10
    IN  CASE zone = "Europe/Rome" -> IF dst THEN 120 ELSE 60
          [] zone = "America/New_York" -> IF dst THEN -240 ELSE -300
          [] OTHER -> 0

PrevDay(dt) ==
    IF dt.d > 1 THEN [dt EXCEPT !.d = dt.d - 1]
    ELSE IF dt.m > 1
         THEN [dt EXCEPT !.m = dt.m - 1, !.d = DaysIn(dt.y, dt.m - 1)]
         ELSE [dt EXCEPT !.y = dt.y - 1, !.m = 12, !.d = 31]

NextDay(dt) ==
    IF dt.d < DaysIn(dt.y, dt.m) THEN [dt EXCEPT !.d = dt.d + 1]
    ELSE IF dt.m < 12
         THEN [dt EXCEPT !.m = dt.m + 1, !.d = 1]
         ELSE [dt EXCEPT !.y = dt.y + 1, !.m = 1, !.d = 1]

\* aware_local.astimezone(ZoneInfo("UTC"))
ToUtc(dt, zone) ==
    LET mins == dt.h * 60 + dt.mi - UtcOffset(zone, dt)
        day == IF mins < 0 THEN PrevDay(dt)
               ELSE IF mins >= 1440 THEN NextDay(dt) ELSE dt
        m2 == mins % 1440
    IN  [day EXCEPT !.h = m2 \div 60, !.mi = m2 % 60]

local_to_utc(b) ==
    LET local_dt == parse_local_datetime(b)
        tzname == resolve_tz_name(b)
    IN  IF ~local_dt.ok THEN local_dt
        ELSE IF ~tzname.ok THEN tzname
        ELSE IF tzname.v \notin ZONES
             THEN Fail(Raise("HTTPException", 422, "Invalid timezone"))
        ELSE Ok(ToUtc(local_dt.v, tzname.v))

-----------------------------------------------------------------------------
(* Chart calculation (Swiss Ephemeris) *)

\* Raw longitudes the adapter may return, in eighths of a degree: inside
\* [0, 360), on sign boundaries, at and above 360, and negative ones down to
\* the smallest magnitude the float grid holds.
RawLongitudes == <<
    Deg(0), Deg(15) + 4, Deg(29) + 7, Deg(30), Deg(100) + 1, Deg(200) + 2,
    Deg(359) + 4, Deg(360), Deg(365), Deg(725), -Deg(30), -1, -Deg(10) - 1,
    -Deg(400), -Deg(360) >>

MaxEphemeris == 15

\* What swe.calc_ut / swe.houses return to one request: a longitude for each
\* body and for the ascendant, or an exception at call number failAt
\* (1..10: calc_ut for that body, 11: houses; 0: none).
Ephemeris(e, failAt) ==
    LET n == Len(RawLongitudes)
        at(k) == RawLongitudes[((e + k - 2) % n) + 1]
    IN  [lon |-> [i \in DOMAIN PLANETS |-> at(i)],
         asc |-> at(Len(PLANETS) + 1),
         failAt |-> failAt]

Ephemerides ==
    {Ephemeris(e, 0) : e \in 1..MaxEphemeris}
        \cup {Ephemeris(1, f) : f \in 1..(Len(PLANETS) + 1)}

NoEph == [lon |-> <<>>, asc |-> 0, failAt |-> -1]

\* SIGNS_EN[idx]: a list index past the end raises IndexError.
SignAt(idx) ==
    IF idx + 1 \in DOMAIN SIGNS_EN THEN Ok(SIGNS_EN[idx + 1])
    ELSE Fail(Raise("IndexError", 500, "list index out of range"))

Placement(lon, sign) == [longitude |-> lon, sign |-> sign]

\* for name, planet in SWE_PLANETS.items(): ...
RECURSIVE PlanetLoop(_, _, _)
PlanetLoop(i, eph, planets) ==
    IF i > Len(PLANETS) THEN Ok(planets)
    ELSE IF eph.failAt = i
         THEN Fail(Raise("swisseph.Error", 500, "calc_ut"))
    ELSE LET lon_p == eph.lon[i]
             sign == SignAt(zodiac_sign_index(lon_p))
         IN  IF ~sign.ok THEN sign
             ELSE PlanetLoop(i + 1, eph,
                             planets @@ (PLANETS[i] :> Placement(lon_p, sign.v)))

MissingLatLon(b) == ~b.lat.some \/ ~b.lon.some

\* Same as compute_chart_from_birth, with the lat/lon check dropped and the
\* ascendant left empty when no location was given.
compute_chart_planets_only(b, eph) ==
    LET utc_dt == local_to_utc(b)
        planets == PlanetLoop(1, eph, <<>>)
    IN  IF ~utc_dt.ok THEN utc_dt.err
        ELSE IF ~planets.ok THEN planets.err
        ELSE [kind |-> "chart", planets |-> planets.v, ascendant |-> <<>>]

compute_chart_from_birth(b, eph) ==
    LET utc_dt == local_to_utc(b)
        planets == PlanetLoop(1, eph, <<>>)
        asc == SignAt(zodiac_sign_index(eph.asc))
    IN  IF ~utc_dt.ok THEN utc_dt.err
        ELSE IF MissingLatLon(b)
             THEN Raise("HTTPException", 422, "lat/lon required")
        ELSE IF ~planets.ok THEN planets.err
        ELSE IF eph.failAt = Len(PLANETS) + 1
             THEN Raise("swisseph.Error", 500, "houses")
        ELSE IF ~asc.ok THEN asc.err
        ELSE [kind |-> "chart",
              planets |-> planets.v,
              ascendant |-> Placement(eph.asc, asc.v),
              meta |-> [birth_local |-> <<b.date, b.time>>,
                        tz |-> resolve_tz_name(b).v,
                        birth_utc |-> utc_dt.v]]

\* Whether the request gets as far as the adapter.
CallsAdapter(b) == local_to_utc(b).ok /\ ~MissingLatLon(b)

-----------------------------------------------------------------------------
(* Charts as a reading request embeds them: Dict[str, Any] *)

\* A JSON value under "planets", "ascendant" or one body's key:
\*   [t |-> "absent"]                 the key is missing (or null)
\*   [t |-> "str", s |-> chars]       a string
\*   [t |-> "dict", sign |-> Opt]     a dict, with its "sign" entry
\*   [t |-> "map", d |-> f]           "planets" as a dict: body -> value
\*   [t |-> "list", l |-> seq]        "planets" as a list of dicts
\*                                    [key, name, sign] (Opt strings)
\* A chart is [planets, ascendant, extra]; extra says that the dict holds
\* other keys (such as "meta").
Absent == [t |-> "absent"]
StrV(s) == [t |-> "str", s |-> s]
DictV(sign) == [t |-> "dict", sign |-> sign]
MapV(d) == [t |-> "map", d |-> d]
ListV(l) == [t |-> "list", l |-> l]

EmptyDict == [planets |-> Absent, ascendant |-> Absent, extra |-> FALSE]

\* `not chart`
IsEmptyDict(chart) ==
    chart.planets.t = "absent" /\ chart.ascendant.t = "absent" /\ ~chart.extra

\* str(d.get("sign") or "")
SignOrEmpty(sign) == IF TruthyS(sign) THEN sign.v ELSE <<>>

\* for p in planets: if isinstance(p, dict) and (p.get("key") == key or ...)
RECURSIVE FindInList(_, _)
FindInList(l, key) ==
    IF l = <<>> THEN <<>>
    ELSE IF (Head(l).key.some /\ Head(l).key.v = key)
            \/ (Head(l).name.some /\ Head(l).name.v = key)
         THEN SignOrEmpty(Head(l).sign)
         ELSE FindInList(Tail(l), key)

safe_get_sign(chart, key) ==
    IF IsEmptyDict(chart) THEN <<>>
    ELSE IF key = "ascendant"
         THEN CASE chart.ascendant.t = "dict" -> SignOrEmpty(chart.ascendant.sign)
                [] chart.ascendant.t = "str" -> chart.ascendant.s
                [] OTHER -> <<>>
    ELSE CASE chart.planets.t = "map" ->
                  LET v == IF key \in DOMAIN chart.planets.d
                           THEN chart.planets.d[key] ELSE Absent
                  IN  CASE v.t = "dict" -> SignOrEmpty(v.sign)
                        [] v.t = "str" -> v.s
                        [] OTHER -> <<>>
           [] chart.planets.t = "list" -> FindInList(chart.planets.l, Spell[key])
           [] OTHER -> <<>>

normalize_sign_en(s) ==
    Only({ IF s1 = <<>> THEN <<>>
           ELSE IF \E i \in DOMAIN SIGNS_EN : Lower(SIGNS_EN[i]) = s2
                THEN SIGNS_EN[CHOOSE i \in DOMAIN SIGNS_EN : Lower(SIGNS_EN[i]) = s2]
                ELSE Capitalize(s1)
           : s1 \in {Strip(s)}, s2 \in {Lower(Strip(s))} })

KEYS == PLANETS \o <<"ascendant">>

\* "sep".join(parts)
RECURSIVE Join(_, _)
Join(sep, parts) ==
    Only({ IF p = <<>> THEN <<>>
           ELSE IF Len(p) = 1 THEN p[1]
           ELSE p[1] \o sep \o Join(sep, Tail(p))
           : p \in {parts} })

chart_signature(chart) ==
    Join(<<"|">>,
         [i \in DOMAIN KEYS |->
             Spell[KEYS[i]] \o <<":">>
                 \o Lower(normalize_sign_en(safe_get_sign(chart, KEYS[i])))])

-----------------------------------------------------------------------------
(* The seeded generator *)

ALPHABET == LOWER \o UPPER
              \o <<"0","1","2","3","4","5","6","7","8","9","|",":","-"," ">>

Code(c) ==
    IF \E i \in DOMAIN ALPHABET : ALPHABET[i] = c
    THEN CHOOSE i \in DOMAIN ALPHABET : ALPHABET[i] = c
    ELSE 0

\* hashlib.sha256(seed).hexdigest() -> int(h[:16], 16), cut down to a 15-bit
\* polynomial digest of the same bytes, computed a chunk of the string at a
\* time: Digest(a \o b) = Extend(Digest(a), b).
RECURSIVE Pow31(_)
Pow31(n) == IF n = 0 THEN 1 ELSE (Pow31(n - 1) * 31) % 32768

RECURSIVE Poly(_, _)
Poly(str, i) ==
    IF i = 0 THEN 0 ELSE (Poly(str, i - 1) * 31 + Code(str[i])) % 32768

Extend(h, str) ==
    Only({ (h * Pow31(Len(s)) + Poly(s, Len(s))) % 32768 : s \in {str} })

RECURSIVE DigestChunks(_, _)
DigestChunks(str, k) ==
    IF k = 0 THEN 7
    ELSE Extend(DigestChunks(str, k - 1),
                SubSeq(str, 16 * (k - 1) + 1,
                       IF 16 * k < Len(str) THEN 16 * k ELSE Len(str)))

Digest(str) == Only({ DigestChunks(s, (Len(s) + 15) \div 16) : s \in {str} })

\* random.Random(seed): the generator is its state, seeded from the digest.
stable_rng(parts) == Digest(Join(<<"|">>, parts))

\* One step of the generator (a 16-bit congruential generator of full period
\* stands for the Mersenne Twister).
NextWord(rng) == (rng * 25173 + 13849) % 65536

Pow2(k) ==
    IF k = 0 THEN 1 ELSE IF k = 1 THEN 2 ELSE IF k = 2 THEN 4
    ELSE IF k = 3 THEN 8 ELSE 16

\* int.bit_length() for the list lengths in use
BitLength(n) == IF n = 0 THEN 0 ELSE IF n = 1 THEN 1 ELSE IF n < 4 THEN 2 ELSE 3

\* Random._randbelow(n): k = n.bit_length(); r = getrandbits(k);
\* while r >= n: r = getrandbits(k)
RECURSIVE RandBelow(_, _)
RandBelow(rng, n) ==
    Only({ LET r == w \div (65536 \div Pow2(BitLength(n)))
           IN  IF r < n THEN [v |-> r, rng |-> w] ELSE RandBelow(w, n)
           : w \in {NextWord(rng)} })

\* items[rng.randrange(0, len(items))]
pick(rng, items) ==
    Only({ [v |-> items[d.v + 1], rng |-> d.rng]
           : d \in {RandBelow(rng, Len(items))} })


-----------------------------------------------------------------------------
(* Narrative intelligence *)

\* Accents of the source's names are dropped.
SIGNS_IT == <<
    <<"A","r","i","e","t","e">>, <<"T","o","r","o">>,
    <<"G","e","m","e","l","l","i">>, <<"C","a","n","c","r","o">>,
    <<"L","e","o","n","e">>, <<"V","e","r","g","i","n","e">>,
    <<"B","i","l","a","n","c","i","a">>, <<"S","c","o","r","p","i","o","n","e">>,
    <<"S","a","g","i","t","t","a","r","i","o">>,
    <<"C","a","p","r","i","c","o","r","n","o">>,
    <<"A","c","q","u","a","r","i","o">>, <<"P","e","s","c","i">> >>

SIGNS_ES == <<
    <<"A","r","i","e","s">>, <<"T","a","u","r","o">>,
    <<"G","e","m","i","n","i","s">>, <<"C","a","n","c","e","r">>,
    <<"L","e","o">>, <<"V","i","r","g","o">>,
    <<"L","i","b","r","a">>, <<"E","s","c","o","r","p","i","o">>,
    <<"S","a","g","i","t","a","r","i","o">>,
    <<"C","a","p","r","i","c","o","r","n","i","o">>,
    <<"A","c","u","a","r","i","o">>, <<"P","i","s","c","i","s">> >>

\* ELEMENT and MODALITY, in the order of SIGNS_EN.
ELEMENT == <<"fire","earth","air","water","fire","earth",
             "air","water","fire","earth","air","water">>
MODALITY == <<"cardinal","fixed","mutable","cardinal","fixed","mutable",
              "cardinal","fixed","mutable","cardinal","fixed","mutable">>

ELEMENTS == <<"fire", "earth", "air", "water">>
MODALITIES == <<"cardinal", "fixed", "mutable">>

IsSign(s) == \E i \in DOMAIN SIGNS_EN : SIGNS_EN[i] = s
SignIndex(s) == CHOOSE i \in DOMAIN SIGNS_EN : SIGNS_EN[i] = s

\* table.get(s, None) for ELEMENT and MODALITY; "None" stands for None
Lookup(table, s) == IF IsSign(s) THEN table[SignIndex(s)] ELSE "None"
ElementOf(s) == Lookup(ELEMENT, s)
ModalityOf(s) == Lookup(MODALITY, s)

\* A weight or a tally is a double, held exactly as t/10 + e * 2^-52/10:
\* t tenths and the distance e from them (1.9 is the double just below
\* 19/10, 1.1 the one just above 11/10).
Dbl(t, e) == [t |-> t, e |-> e]

PLANET_WEIGHT == [
    sun |-> Dbl(30, 0), moon |-> Dbl(30, 0), ascendant |-> Dbl(26, 4),
    mercury |-> Dbl(20, 0), venus |-> Dbl(20, 0), mars |-> Dbl(20, 0),
    jupiter |-> Dbl(16, 4), saturn |-> Dbl(19, -4),
    uranus |-> Dbl(11, 4), neptune |-> Dbl(11, 4), pluto |-> Dbl(12, -2) ]

\* The binade of t/10 + e * 2^-52/10 (0 for [1, 2), ... 4 for [16, 32)).
Binade(t, e) ==
    IF t > 160 \/ (t = 160 /\ e >= 0) THEN 4
    ELSE IF t > 80 \/ (t = 80 /\ e >= 0) THEN 3
    ELSE IF t > 40 \/ (t = 40 /\ e >= 0) THEN 2
    ELSE IF t > 20 \/ (t = 20 /\ e >= 0) THEN 1
    ELSE 0

\* 2^(52-b) modulo 10 and modulo 20, for b = 0..4
TwoPowMod10 == <<6, 8, 4, 2, 6>>
TwoPowMod20 == <<16, 8, 4, 12, 16>>

\* x + y on doubles: the exact sum rounded to the nearest multiple of the
\* spacing of its binade (10 * 2^b units of e), ties to even.
FAdd(x, y) ==
    Only({ IF t = 0 THEN Dbl(0, 0)
           ELSE Only({
                  LET S == 10 * Pow2(b)
                      r == (Pow2(b) * ((t * TwoPowMod10[b + 1]) % 10) + e) % S
                      k == (e - r) \div Pow2(b)
                      q == (((t * TwoPowMod20[b + 1]) + k) % 20) \div 10
                  IN  IF 2 * r < S \/ (2 * r = S /\ q = 0)
                      THEN Dbl(t, e - r) ELSE Dbl(t, e + S - r)
                  : b \in {Binade(t, e)} })
           : t \in {x.t + y.t}, e \in {x.e + y.e} })

FLess(x, y) == x.t < y.t \/ (x.t = y.t /\ x.e < y.e)

\* elem_score[e] += w / mod_score[m] += w over signs.items(), up to KEYS[i]:
\* the tally of one element or modality.
RECURSIVE Tally(_, _, _, _)
Tally(signs, table, name, i) ==
    IF i = 0 THEN Dbl(0, 0)
    ELSE IF signs[KEYS[i]] # <<>> /\ Lookup(table, signs[KEYS[i]]) = name
    THEN FAdd(Tally(signs, table, name, i - 1), PLANET_WEIGHT[KEYS[i]])
    ELSE Tally(signs, table, name, i - 1)

\* max(score, key=...): the first of the greatest, in the dict's order
FirstMax(names, score) ==
    names[CHOOSE i \in DOMAIN names :
             /\ \A j \in DOMAIN names : ~FLess(score[names[i]], score[names[j]])
             /\ \A j \in 1..(i - 1) : FLess(score[names[j]], score[names[i]])]

\* sum(score.values()), of the first i values
RECURSIVE SumOver(_, _, _)
SumOver(names, score, i) ==
    IF i = 0 THEN Dbl(0, 0)
    ELSE FAdd(SumOver(names, score, i - 1), score[names[i]])

element_modality_profile(signs) ==
    Only({ [elements |-> elem_score,
            modalities |-> mod_score,
            dominant_element |->
                IF FLess(Dbl(0, 0), SumOver(ELEMENTS, elem_score, Len(ELEMENTS)))
                THEN FirstMax(ELEMENTS, elem_score) ELSE "None",
            dominant_modality |->
                IF FLess(Dbl(0, 0), SumOver(MODALITIES, mod_score, Len(MODALITIES)))
                THEN FirstMax(MODALITIES, mod_score) ELSE "None"]
           : elem_score \in {[fire |-> Tally(signs, ELEMENT, "fire", Len(KEYS)),
                              earth |-> Tally(signs, ELEMENT, "earth", Len(KEYS)),
                              air |-> Tally(signs, ELEMENT, "air", Len(KEYS)),
                              water |-> Tally(signs, ELEMENT, "water", Len(KEYS))]},
             mod_score \in {[cardinal |-> Tally(signs, MODALITY, "cardinal", Len(KEYS)),
                             fixed |-> Tally(signs, MODALITY, "fixed", Len(KEYS)),
                             mutable |-> Tally(signs, MODALITY, "mutable", Len(KEYS))]} })

key_tensions(signs) ==
    LET sun == signs["sun"]
        moon == signs["moon"]
        asc == signs["ascendant"]
    IN  (IF sun # <<>> /\ moon # <<>> /\ ElementOf(sun) # ElementOf(moon)
         THEN <<"sun_moon_element_mismatch">> ELSE <<>>)
        \o (IF sun # <<>> /\ moon # <<>> /\ ModalityOf(sun) # ModalityOf(moon)
            THEN <<"sun_moon_modality_mismatch">> ELSE <<>>)
        \o (IF moon # <<>> /\ asc # <<>> /\ ElementOf(moon) # ElementOf(asc)
            THEN <<"moon_asc_element_mismatch">> ELSE <<>>)

sign_name(sign_en, lang) ==
    IF sign_en = <<>> THEN <<>>
    ELSE Only({ IF ~IsSign(cap) THEN sign_en
                ELSE CASE lang = "it" -> SIGNS_IT[SignIndex(cap)]
                       [] lang = "es" -> SIGNS_ES[SignIndex(cap)]
                       [] OTHER -> SIGNS_EN[SignIndex(cap)]
                : cap \in {Capitalize(sign_en)} })


-----------------------------------------------------------------------------
(* Section texts *)

\* A text is a sequence of lines ("\n".join); a line is a template of the
\* source, named by its opening words, with the values it interpolates.
L(template, args) == <<template, args>>

Blank == L("", <<>>)

T(lines, rng) == [text |-> lines, rng |-> rng]

\* pick(rng, [...]) as the only line of a text, or followed by more lines
Picked(rng, items, more) ==
    Only({ T(<<L(c.v, <<>>)>> \o more, c.rng) : c \in {pick(rng, items)} })

fallback_soft(lang) == L("I18N.fallback_soft", <<lang>>)

\* The lines a shadow section adds to its picked base line.
ShadowAdd(plu, tensions, pluLine, mismatchLine) ==
    (IF plu # <<>> THEN <<L(pluLine, <<plu>>)>> ELSE <<>>)
    \o (IF \E i \in DOMAIN tensions : tensions[i] = "sun_moon_element_mismatch"
        THEN <<L(mismatchLine, <<>>)>> ELSE <<>>)

\* The chain of `if section_key == ...` of the default (EN) voice, which the
\* Italian voice falls through to for a key it does not know.
section_en(rng, lang, section_key, n, tensions) ==
    CASE section_key = "core" ->
           T(<<L("Sun in {} is your identity engine", <<n.sun>>),
               L("Moon in {} is your emotional truth", <<n.moon>>),
               L("Ascendant in {} is your social armor", <<n.asc>>),
               L("Your edge is integration", <<>>)>>, rng)
      [] section_key = "engine" ->
           Picked(rng, <<"Your emotions don't overwhelm you",
                         "You read micro-signals",
                         "Your heart is selective">>, <<>>)
      [] section_key = "mind" ->
           T(<<L("Mercury in {} shapes your thinking", <<n.mer>>),
               L("When centered, you speak clean truth", <<>>),
               L("Under stress, you chase the perfect sentence", <<>>)>>, rng)
      [] section_key = "drive" ->
           T(<<L("Mars in {} is your action style", <<n.mar>>),
               L("Under pressure you can become demanding", <<>>),
               L("Your strength is intelligent discipline", <<>>)>>, rng)
      [] section_key = "love" ->
           T(<<L("Venus in {} shows your love pattern", <<n.ven>>),
               L("Moon in {} makes you sensitive to consistency", <<n.moon>>),
               L("When something feels unclear, you may test", <<>>),
               L("Upgrade: ask early, simply, once", <<>>)>>, rng)
      [] section_key = "money" ->
           T(<<L("Money for you is security + freedom. Jupiter in {}", <<n.jup>>),
               L("Saturn in {} demands structure", <<n.sat>>),
               L("If your flow swings, it's rarely luck", <<>>)>>, rng)
      [] section_key = "shadow" ->
           Picked(rng, <<"Your shadow isn't 'bad'",
                         "When you feel vulnerable, you reach for control",
                         "The blind spot isn't emotion">>,
                  ShadowAdd(n.plu, tensions,
                            "Pluto in {} intensifies your inner stakes",
                            "Two inner languages coexist"))
      [] section_key = "strengths" ->
           T(<<L("Your power isn't perfection", <<>>),
               L("When you integrate mind + heart + action", <<>>),
               L("Your power move: pick one outcome", <<>>)>>, rng)
      [] section_key = "timing" ->
           T(<<L("Timing is leverage", <<>>),
               L("Jupiter in {} shows when to expand. Saturn in {}", <<n.jup, n.sat>>),
               L("Rule: only expand what you can sustain", <<>>)>>, rng)
      [] section_key = "health" ->
           T(<<L("Your energy runs in cycles", <<>>),
               L("You recharge by reducing inputs", <<>>),
               L("Energy hygiene: sleep, food, movement, boundaries", <<>>)>>, rng)
      [] section_key = "social" ->
           T(<<L("You don't do 'many friends'", <<>>),
               L("If you sense inconsistency, you step back fast", <<>>),
               L("Your balance: say one more thing", <<>>)>>, rng)
      [] section_key = "purpose" ->
           T(<<L("Purpose isn't 'do more'", <<>>),
               L("Compass: real impact, clean reputation", <<>>),
               L("When you stop proving and start choosing", <<>>)>>, rng)
      [] section_key = "wow" ->
           Picked(rng, <<"Today: write ONE avoided truth in one sentence",
                         "Today: set one simple boundary and keep it",
                         "Today: remove one thing">>, <<>>)
      [] OTHER -> T(<<fallback_soft(lang)>>, rng)

section_it(rng, lang, section_key, n, tensions) ==
    CASE section_key = "core" ->
           T(<<L("Il tuo Sole in {} non vive di promesse", <<n.sun>>),
               L("La Luna in {} non chiede attenzione", <<n.moon>>),
               L("L'Ascendente in {} e la tua facciata", <<n.asc>>),
               L("Il punto chiave: non sei una cosa sola", <<>>)>>, rng)
      [] section_key = "engine" ->
           Picked(rng, <<"Le emozioni non ti travolgono",
                         "Il tuo cuore e selettivo",
                         "Senti prima di capire">>,
                  <<L("Se ti accorgi che stai facendo il forte", <<>>)>>)
      [] section_key = "mind" ->
           T(<<L("Mercurio in {} indica come pensi e parli", <<n.mer>>),
               L("Quando sei centrato, sei essenziale", <<>>),
               L("Quando sei sotto pressione, cerchi la frase perfetta", <<>>)>>, rng)
      [] section_key = "drive" ->
           T(<<L("Marte in {} e il modo in cui agisci", <<n.mar>>),
               L("Sotto stress puoi diventare iper-esigente", <<>>),
               L("La tua forza e la disciplina intelligente", <<>>)>>, rng)
      [] section_key = "love" ->
           T(<<L("Venere in {} dice come ami", <<n.ven>>),
               L("La Luna in {} ti rende sensibile ai micro-segnali", <<n.moon>>),
               L("Quando qualcosa non torna, non chiedi subito", <<>>),
               L("Il tuo upgrade: chiedere prima", <<>>)>>, rng)
      [] section_key = "money" ->
           T(<<L("Il denaro per te e sicurezza + liberta. Giove in {}", <<n.jup>>),
               L("Saturno in {} chiede regole", <<n.sat>>),
               L("Se il tuo flusso e altalenante, non e sfortuna", <<>>)>>, rng)
      [] section_key = "shadow" ->
           Picked(rng, <<"La tua ombra non e cattiva",
                         "Quando ti senti vulnerabile, provi a riprendere controllo",
                         "Il punto cieco non e l'emozione">>,
                  ShadowAdd(n.plu, tensions,
                            "Plutone in {} intensifica tutto",
                            "Dentro convivono due linguaggi diversi"))
      [] section_key = "strengths" ->
           T(<<L("Il tuo potere non e essere perfetto", <<>>),
               L("Quando integri mente + cuore + azione", <<>>),
               L("La tua mossa vincente: scegliere un obiettivo", <<>>)>>, rng)
      [] section_key = "timing" ->
           T(<<L("Il timing per te e una leva", <<>>),
               L("Giove in {} indica quando osare. Saturno in {}", <<n.jup, n.sat>>),
               L("La regola pratica: espandi solo cio che sai sostenere", <<>>)>>, rng)
      [] section_key = "health" ->
           T(<<L("La tua energia non e infinita", <<>>),
               L("Ti ricarichi quando riduci stimoli", <<>>),
               L("Igiene energetica: sonno, cibo, movimento, confini", <<>>)>>, rng)
      [] section_key = "social" ->
           T(<<L("Nelle amicizie non cerchi quantita", <<>>),
               L("Se senti incoerenza, ti allontani", <<>>),
               L("Il tuo equilibrio: dire una cosa in piu", <<>>)>>, rng)
      [] section_key = "purpose" ->
           T(<<L("Il tuo scopo non e fare tanto", <<>>),
               L("La bussola: impatto reale, reputazione pulita", <<>>),
               L("Quando smetti di dimostrare e inizi a scegliere", <<>>)>>, rng)
      [] section_key = "wow" ->
           Picked(rng, <<"Oggi: scrivi UNA frase vera che eviti da settimane",
                         "Oggi: scegli un confine semplice e rispettalo",
                         "Oggi: togli una cosa">>, <<>>)
      [] OTHER -> section_en(rng, lang, section_key, n, tensions)

section_es(rng, lang, section_key, n, tensions) ==
    CASE section_key = "core" ->
           T(<<L("Sol en {}: tu identidad no vive de ideas", <<n.sun>>),
               L("Luna en {}: tu mundo emocional necesita coherencia", <<n.moon>>),
               L("Ascendente en {}: pareces controlado", <<n.asc>>),
               L("Clave: tu fuerza nace cuando alineas", <<>>)>>, rng)
      [] section_key = "wow" ->
           Picked(rng, <<"Hoy: di una verdad en UNA frase",
                         "Hoy: elige un limite simple y cumplelo">>, <<>>)
      [] OTHER -> T(<<fallback_soft("es")>>, rng)

\* Returns the text and the generator as the call leaves it.
build_section_text(rng, lang, section_key, signs, signature, tensions) ==
    Only({ CASE lang = "it" -> section_it(rng, lang, section_key, n, tensions)
             [] lang = "es" -> section_es(rng, lang, section_key, n, tensions)
             [] OTHER -> section_en(rng, lang, section_key, n, tensions)
           : n \in {[sun |-> sign_name(signs["sun"], lang),
                     moon |-> sign_name(signs["moon"], lang),
                     asc |-> sign_name(signs["ascendant"], lang),
                     mer |-> sign_name(signs["mercury"], lang),
                     ven |-> sign_name(signs["venus"], lang),
                     mar |-> sign_name(signs["mars"], lang),
                     jup |-> sign_name(signs["jupiter"], lang),
                     sat |-> sign_name(signs["saturn"], lang),
                     plu |-> sign_name(signs["pluto"], lang),
                     nep |-> sign_name(signs["neptune"], lang),
                     ura |-> sign_name(signs["uranus"], lang)]} })


-----------------------------------------------------------------------------
(* Reading assembly *)

LANGS == {Spell[l] : l \in {"en", "it", "es"}}

clamp_lang(lang) ==
    LET l == Strip(Lower(IF TruthyS(lang) THEN lang.v ELSE Spell["en"]))
    IN  IF l \in LANGS THEN l ELSE Spell["en"]

clamp_topic(topic) ==
    LET t == Strip(Lower(IF TruthyS(topic) THEN topic.v ELSE <<>>))
    IN  IF t \in TOPICS THEN t ELSE Spell["personal"]

\* depth if depth in ("standard", "deep") else "standard"
clamp_depth(depth) ==
    IF depth.some /\ depth.v \in {Spell["standard"], Spell["deep"]}
    THEN depth.v ELSE Spell["standard"]

\* An Optional[str] timestamp: absent, empty, unparsable (wf = FALSE), or an
\* ISO timestamp whose date part is `day`.
NoneN == [some |-> FALSE, empty |-> FALSE, wf |-> FALSE, day |-> <<>>, clock |-> ""]
Iso(day, clock) ==
    [some |-> TRUE, empty |-> FALSE, wf |-> TRUE, day |-> day, clock |-> clock]
EmptyN == [some |-> TRUE, empty |-> TRUE, wf |-> FALSE, day |-> <<>>, clock |-> ""]
GarbageN == [some |-> TRUE, empty |-> FALSE, wf |-> FALSE, day |-> <<>>, clock |-> "?"]

\* datetime.fromisoformat(...).strftime("%Y-%m-%d"), "" when that raises
DayKey(now_iso) ==
    IF now_iso.some /\ ~now_iso.empty /\ now_iso.wf THEN now_iso.day ELSE <<>>

Has(list, k) == \E i \in DOMAIN list : list[i] = k

\* list.append(k)
AppendKey(list, k) == list \o <<k>>

\* list.insert(-1, k)
InsertBeforeLast(list, k) ==
    IF list = <<>> THEN <<k>>
    ELSE SubSeq(list, 1, Len(list) - 1) \o <<k>> \o <<list[Len(list)]>>

extra_map(topic) ==
    CASE topic = "love" -> <<"money">>
      [] topic = "career" -> <<"shadow">>
      [] topic = "money" -> <<"strengths">>
      [] topic = "shadow" -> <<"engine">>
      [] topic = "purpose" -> <<"timing">>
      [] topic = "communication" -> <<"social">>
      [] topic = "personal" -> <<"purpose">>
      [] OTHER -> <<"shadow">>

\* for k in extras: if k not in focus and k != "wow": focus.insert(-1, k)
RECURSIVE AddExtras(_, _)
AddExtras(focus, extras) ==
    IF extras = <<>> THEN focus
    ELSE AddExtras(IF ~Has(focus, Head(extras)) /\ Head(extras) # "wow"
                   THEN InsertBeforeLast(focus, Head(extras)) ELSE focus,
                   Tail(extras))

\* Without .copy(): `focus` is the table's own list, and the inserts land in
\* the table.
select_focus_no_copy(table, topic, depth) ==
    Only({ [focus |-> focus, table |-> [table EXCEPT ![topic] = focus]]
           : focus \in {IF depth = "deep"
                        THEN AddExtras(table[topic], extra_map(topic))
                        ELSE table[topic]} })

\* focus = TOPIC_FOCUS.get(topic, ...).copy(), then the deep extras; returns
\* the list and the table as the call leaves it.
select_focus(table, topic, depth) ==
    Only({ [focus |-> focus, table |-> table]
           : focus \in {IF depth = "deep"
                        THEN AddExtras(table[topic], extra_map(topic))
                        ELSE table[topic]} })

\* for key in focus: if key == "wow": continue; ... sections.append(...)
\* `done` holds the sections appended so far.
RECURSIVE SectionLoop(_, _, _, _, _, _, _, _)
SectionLoop(focus, i, rng, done, lang, signs, sig, tens) ==
    IF i > Len(focus) THEN [sections |-> done, rng |-> rng]
    ELSE IF focus[i] = "wow"
    THEN SectionLoop(focus, i + 1, rng, done, lang, signs, sig, tens)
    ELSE Only({ SectionLoop(focus, i + 1, txt.rng,
                            Append(done, [key |-> focus[i],
                                          title |-> L("I18N.sec", <<lang, focus[i]>>),
                                          text |-> txt.text]),
                            lang, signs, sig, tens)
                : txt \in {build_section_text(rng, lang, focus[i], signs, sig, tens)} })

\* Without the joined.append("") after each section.
RECURSIVE JoinSectionsTight(_)
JoinSectionsTight(sections) ==
    IF sections = <<>> THEN <<>>
    ELSE <<Head(sections).title>> \o Head(sections).text
             \o JoinSectionsTight(Tail(sections))

\* for s in sections: joined.append(title + "\n" + text); joined.append("")
RECURSIVE JoinSections(_)
JoinSections(sections) ==
    IF sections = <<>> THEN <<>>
    ELSE <<Head(sections).title>> \o Head(sections).text \o <<Blank>>
             \o JoinSections(Tail(sections))

RECURSIVE LStripLines(_)
LStripLines(t) == IF t # <<>> /\ Head(t) = Blank THEN LStripLines(Tail(t)) ELSE t

RECURSIVE RStripLines(_)
RStripLines(t) ==
    IF t # <<>> /\ t[Len(t)] = Blank
    THEN RStripLines(SubSeq(t, 1, Len(t) - 1)) ELSE t

\* "\n".join(joined).strip()
StripLines(t) == RStripLines(LStripLines(t))

\* for p in PLANETS: signs[p] = ...; signs["ascendant"] = ...
RECURSIVE ExtractSigns(_, _)
ExtractSigns(chart, i) ==
    IF i > Len(KEYS) THEN [k \in {} |-> <<>>]
    ELSE (KEYS[i] :> normalize_sign_en(safe_get_sign(chart, KEYS[i])))
            @@ ExtractSigns(chart, i + 1)

\* Returns the reading (with the local `focus`, which the JSON does not
\* carry) and the table as the call leaves it.
build_wow_reading(table, topic0, lang0, chart, depth0, now_iso) ==
    Only({ Only({ Only({ Only({
        [out |-> [kind |-> "reading",
                  topic |-> topic,
                  lang |-> lang,
                  depth |-> depth,
                  title |-> title,
                  sections |-> secs.sections,
                  wow_practice |-> wow.text,
                  text |-> StripLines(<<title, Blank>> \o JoinSections(secs.sections)
                                         \o <<L("I18N.sec", <<lang, "wow">>)>>
                                         \o wow.text),
                  meta |-> [dominant_element |-> sig.dominant_element,
                            dominant_modality |-> sig.dominant_modality,
                            tensions |-> tens],
                  focus |-> sel.focus],
         table |-> sel.table]
        : wow \in {build_section_text(secs.rng, lang, "wow", signs, sig, tens)} })
        : secs \in {SectionLoop(sel.focus, 1, rng, <<>>, lang, signs, sig, tens)} })
        : sig \in {element_modality_profile(signs)},
          tens \in {key_tensions(signs)},
          rng \in {stable_rng(<<chart_signature(chart), Spell[topic], Spell[lang],
                                DayKey(now_iso)>>)},
          title \in {L("I18N.titles", <<lang, topic>>)},
          sel \in {select_focus(table, topic, depth)} })
        : lang \in {Atom(clamp_lang(lang0))},
          topic \in {Atom(clamp_topic(topic0))},
          depth \in {Atom(clamp_depth(depth0))},
          signs \in {ExtractSigns(chart, 1)} })

\* ReadingRequest: topic is required, lang and depth are Optional[Literal].
ValidReadingRequest(payload) ==
    /\ payload.topic.some
    /\ payload.lang.some => payload.lang.v \in LANGS
    /\ payload.depth.some => payload.depth.v \in {Spell["standard"], Spell["deep"]}

\* birth_profile.get("chart") or {}
ChartOf(payload) ==
    IF payload.birth_profile.chart.some
    THEN payload.birth_profile.chart.v ELSE EmptyDict

\* The arguments the handler passes to build_wow_reading.
ReadingArgs(payload) ==
    [topic |-> SomeS(clamp_topic(payload.topic)),
     lang |-> SomeS(clamp_lang(payload.lang)),
     chart |-> ChartOf(payload),
     depth |-> IF TruthyS(payload.depth) THEN payload.depth
               ELSE SomeS(Spell["standard"]),
     now_iso |-> payload.now_iso]

\* Same as readings, without the `if not chart` check.
readings_unchecked(table, payload) ==
    LET a == ReadingArgs(payload)
    IN  IF ~ValidReadingRequest(payload)
        THEN [out |-> Raise("RequestValidationError", 422, "body"), table |-> table]
        ELSE build_wow_reading(table, a.topic, a.lang, a.chart, a.depth, a.now_iso)

\* readings(payload), after the body has been validated against ReadingRequest.
readings(table, payload) ==
    LET a == ReadingArgs(payload)
    IN  IF ~ValidReadingRequest(payload)
        THEN [out |-> Raise("RequestValidationError", 422, "body"), table |-> table]
        ELSE IF IsEmptyDict(a.chart)
        THEN [out |-> Raise("HTTPException", 422, "birth_profile.chart is required"),
              table |-> table]
        ELSE build_wow_reading(table, a.topic, a.lang, a.chart, a.depth, a.now_iso)


-----------------------------------------------------------------------------
(* Configuration tables *)

TOPIC_FOCUS_0 == [
    personal |-> <<"core","engine","mind","drive","strengths","wow">>,
    love |-> <<"core","engine","love","mind","shadow","wow">>,
    career |-> <<"core","mind","drive","strengths","money","wow">>,
    money |-> <<"core","money","drive","mind","shadow","wow">>,
    shadow |-> <<"core","engine","shadow","mind","drive","wow">>,
    strengths |-> <<"core","strengths","mind","drive","engine","wow">>,
    communication |-> <<"core","mind","engine","shadow","strengths","wow">>,
    timing |-> <<"core","timing","drive","mind","engine","wow">>,
    health |-> <<"core","health","engine","mind","drive","wow">>,
    friendships |-> <<"core","social","mind","engine","shadow","wow">>,
    purpose |-> <<"core","purpose","drive","mind","strengths","wow">>
]

-----------------------------------------------------------------------------
(* Sample requests *)

Date(y, m, d) == [wf |-> TRUE, y |-> y, m |-> m, d |-> d]
Clock(h, mi) == [wf |-> TRUE, h |-> h, mi |-> mi]

SampleDates == {Date(1998, 1, 1), Date(2000, 7, 15), Date(1998, 2, 30),
                [wf |-> FALSE, y |-> 0, m |-> 0, d |-> 0]}
SampleTimes == {Clock(12, 30), Clock(0, 15), Clock(24, 0)}
SampleZones == {NoneA, SomeA(""), SomeA("Europe/Rome"),
                SomeA("America/New_York"), SomeA("Mars/Phobos")}
SampleLats == {NoneF, SomeF(Deg(41) + 7), SomeF(Deg(95))}
SampleLons == {NoneF, SomeF(Deg(12) + 4), SomeF(Deg(200))}

BirthInputs ==
    [date : SampleDates, time : SampleTimes, tz : SampleZones,
     lat : SampleLats, lon : SampleLons]

\* Sample charts: the shape compute_chart_from_birth returns; a dict of
\* strings in odd case with pluto and venus missing; a list of dicts with
\* an unknown sign and no ascendant; a non-empty dict with no placements.
SignsA == <<10, 1, 10, 11, 12, 11, 1, 11, 10, 9>>

ChartA ==
    [planets |-> MapV([k \in BODIES |->
                         DictV(SomeS(SIGNS_EN[SignsA[PlanetIndex(k)]]))]),
     ascendant |-> DictV(SomeS(SIGNS_EN[8])),
     extra |-> TRUE]

ChartB ==
    [planets |-> MapV([k \in BODIES \ {"pluto"} |->
                         CASE k = "sun" -> StrV(Lower(SIGNS_EN[5]))
                           [] k = "moon" -> StrV(<<" ">> \o SIGNS_EN[9] \o <<" ">>)
                           [] k = "venus" -> Absent
                           [] k = "mars" -> DictV(NoneS)
                           [] OTHER -> StrV(SIGNS_EN[3])]),
     ascendant |-> StrV([i \in 1..7 |-> UpperChar(SIGNS_EN[8][i])]),
     extra |-> FALSE]

ChartC ==
    [planets |-> ListV(<<
        [key |-> SomeS(Spell["sun"]), name |-> NoneS, sign |-> SomeS(SIGNS_EN[3])],
        [key |-> NoneS, name |-> SomeS(Spell["moon"]), sign |-> SomeS(<<"F","o","o">>)],
        [key |-> SomeS(Spell["pluto"]), name |-> NoneS, sign |-> SomeS(SIGNS_EN[8])],
        [key |-> SomeS(Spell["mars"]), name |-> NoneS, sign |-> NoneS] >>),
     ascendant |-> Absent,
     extra |-> FALSE]

ChartD == [planets |-> Absent, ascendant |-> Absent, extra |-> TRUE]

\* A full chart whose earth and air placements weigh 7.7 each, and a chart
\* of two placements that weigh 3.0 each.
SignsE == <<8, 7, 4, 2, 2, 11, 11, 5, 6, 7>>

ChartE ==
    [planets |-> MapV([k \in BODIES |->
                         DictV(SomeS(SIGNS_EN[SignsE[PlanetIndex(k)]]))]),
     ascendant |-> DictV(SomeS(SIGNS_EN[6])),
     extra |-> TRUE]

ChartF ==
    [planets |-> MapV([k \in {"sun", "moon"} |->
                         IF k = "sun" THEN StrV(SIGNS_EN[1]) ELSE StrV(SIGNS_EN[2])]),
     ascendant |-> Absent,
     extra |-> FALSE]

MaxDays == 2

Digits == <<"0","1","2","3","4","5","6","7","8","9">>

\* "2024-01-0d"
Day(d) == <<"2","0","2","4","-","0","1","-","0">> \o <<Digits[d + 1]>>

SampleNows ==
    {NoneN, EmptyN, GarbageN, Iso(Day(1), "T23:30:00Z")}
        \cup {Iso(Day(d), "T08:00:00+02:00") : d \in 1..MaxDays}

WithChart(c) == [chart |-> [some |-> TRUE, v |-> c]]
NoChart == [chart |-> [some |-> FALSE, v |-> EmptyDict]]

Payload(bp, topic, lang, depth, now) ==
    [path |-> "/readings", birth_profile |-> bp, topic |-> topic,
     lang |-> lang, depth |-> depth, now_iso |-> now]

\* Every topic in every language and depth on one chart; two topics over
\* the other charts and timestamps; values outside the supported sets;
\* requests without a chart; and charts with tied tallies.
ReadingRequests ==
    {Payload(WithChart(ChartA), SomeS(t), SomeS(l), SomeS(d), NoneN) :
        t \in TOPICS, l \in LANGS, d \in {Spell["standard"], Spell["deep"]}}
    \cup
    {Payload(WithChart(c), SomeS(Spell[t]), SomeS(Spell[l]), SomeS(d), n) :
        c \in {ChartA, ChartB, ChartC, ChartD},
        t \in {"career", "friendships"}, l \in {"en", "it"},
        d \in {Spell["standard"], Spell["deep"]}, n \in SampleNows}
    \cup
    {Payload(WithChart(ChartA), t, l, d, NoneN) :
        t \in {NoneS, SomeS(<<>>), SomeS(<<"L","O","V","E">>),
               SomeS(<<" ">> \o Spell["career"] \o <<" ">>),
               SomeS(<<"b","o","g","u","s">>)},
        l \in {NoneS, SomeS(Spell["es"]), SomeS(<<"f","r">>), SomeS(<<"I","T">>)},
        d \in {NoneS, SomeS(Spell["deep"]), SomeS(<<"D","e","e","p">>)}}
    \cup
    {Payload(bp, SomeS(Spell["love"]), SomeS(Spell["en"]), d, NoneN) :
        bp \in {NoChart, WithChart(EmptyDict)},
        d \in {NoneS, SomeS(Spell["deep"])}}
    \cup
    {Payload(WithChart(c), SomeS(Spell["personal"]), SomeS(Spell["en"]),
             SomeS(Spell["standard"]), NoneN) : c \in {ChartE, ChartF}}

\* Direct calls of build_wow_reading, with arguments no request body can
\* carry past the endpoint's validation.
DirectCalls ==
    {[path |-> "build_wow_reading", topic |-> t, lang |-> l, chart |-> c,
      depth |-> d, now_iso |-> NoneN] :
        t \in {NoneS, SomeS(<<"L","O","V","E">>), SomeS(<<"b","o","g","u","s">>),
               SomeS(Spell["career"])},
        l \in {NoneS, SomeS(<<"f","r">>), SomeS(<<" ","I","T">>), SomeS(Spell["en"])},
        c \in {ChartA, ChartD},
        d \in {NoneS, SomeS(<<"b","o","g","u","s">>), SomeS(Spell["deep"]),
               SomeS(Spell["standard"])}}

\* The requests of a client that comes back: four topics at both depths,
\* and one reading asked again on other days, in another language and for
\* another chart.
RepeatedRequests ==
    {Payload(WithChart(ChartA), SomeS(Spell[t]), SomeS(Spell["en"]), SomeS(d), NoneN) :
        t \in {"love", "career", "shadow", "timing"},
        d \in {Spell["standard"], Spell["deep"]}}
    \cup
    {Payload(WithChart(ChartA), SomeS(Spell["love"]), SomeS(Spell["en"]),
             SomeS(Spell["standard"]), n) : n \in SampleNows \ {NoneN, EmptyN}}
    \cup
    {Payload(WithChart(ChartB), SomeS(Spell["love"]), SomeS(Spell["it"]),
             SomeS(Spell["standard"]), NoneN)}


-----------------------------------------------------------------------------
(* The server *)

NoReq == [path |-> "none"]
NoResp == [kind |-> "none"]
NoProbe == [set |-> FALSE]
MaxSince == 2

Init ==
    /\ TOPIC_FOCUS = TOPIC_FOCUS_0
    /\ pc = "idle"
    /\ req = NoReq
    /\ swe = NoEph
    /\ resp = NoResp
    /\ probe = NoProbe

\* POST /chart arrives.
ChartRequest ==
    /\ pc = "idle"
    /\ \E b \in BirthInputs : req' = [path |-> "/chart", birth |-> b]
    /\ pc' = "chart"
    /\ UNCHANGED <<TOPIC_FOCUS, swe, resp, probe>>

\* chart_from_birth(payload)
chart_from_birth ==
    /\ pc = "chart"
    /\ \E eph \in Ephemerides :
          /\ swe' = IF CallsAdapter(req.birth) THEN eph ELSE NoEph
          /\ resp' = compute_chart_from_birth(req.birth, eph)
    /\ pc' = "sent"
    /\ UNCHANGED <<TOPIC_FOCUS, req, probe>>

\* The response has gone out; the request's locals are dropped. A kept
\* call counts the requests answered since, up to MaxSince.
Close ==
    /\ pc = "sent"
    /\ pc' = "idle"
    /\ req' = NoReq
    /\ swe' = NoEph
    /\ resp' = NoResp
    /\ probe' = IF probe.set /\ probe.since < MaxSince
                THEN [probe EXCEPT !.since = @ + 1] ELSE probe
    /\ UNCHANGED TOPIC_FOCUS

NextChart == ChartRequest \/ chart_from_birth \/ Close

SpecChart == Init /\ [][NextChart]_vars

-----------------------------------------------------------------------------
(* POST /readings and direct calls of build_wow_reading *)

\* The build_wow_reading call a request leads to.
CallOf(r) ==
    IF r.path = "/readings" THEN ReadingArgs(r)
    ELSE [topic |-> r.topic, lang |-> r.lang, chart |-> r.chart,
          depth |-> r.depth, now_iso |-> r.now_iso]

\* POST /readings arrives.
ReadingRequest ==
    /\ pc = "idle"
    /\ \E r \in ReadingRequests : req' = r
    /\ pc' = "readings"
    /\ UNCHANGED <<TOPIC_FOCUS, swe, resp, probe>>

\* readings(payload)
readings_endpoint ==
    /\ pc = "readings"
    /\ \E r \in {readings(TOPIC_FOCUS, req)} :
          /\ resp' = r.out
          /\ TOPIC_FOCUS' = r.table
    /\ pc' = "sent"
    /\ UNCHANGED <<req, swe, probe>>

\* Another module calls build_wow_reading.
DirectCall ==
    /\ pc = "idle"
    /\ \E r \in DirectCalls : req' = r
    /\ pc' = "call"
    /\ UNCHANGED <<TOPIC_FOCUS, swe, resp, probe>>

build_wow_reading_call ==
    /\ pc = "call"
    /\ \E r \in {build_wow_reading(TOPIC_FOCUS, req.topic, req.lang, req.chart,
                                     req.depth, req.now_iso)} :
          /\ resp' = r.out
          /\ TOPIC_FOCUS' = r.table
    /\ pc' = "sent"
    /\ UNCHANGED <<req, swe, probe>>

NextRead ==
    ReadingRequest \/ readings_endpoint \/ DirectCall \/ build_wow_reading_call
        \/ Close

SpecRead == Init /\ [][NextRead]_vars

\* The same endpoint serving a returning client, with one of the calls of
\* build_wow_reading kept to compare the later ones with.
Remember(out) ==
    \/ UNCHANGED probe
    \/ /\ probe = NoProbe
       /\ out.kind = "reading"
       /\ probe' = [set |-> TRUE, since |-> 0, args |-> CallOf(req), out |-> out]

RepeatedRequest ==
    /\ pc = "idle"
    /\ \E r \in RepeatedRequests : req' = r
    /\ pc' = "readings"
    /\ UNCHANGED <<TOPIC_FOCUS, swe, resp, probe>>

\* readings(payload)
readings_observed ==
    /\ pc = "readings"
    /\ \E r \in {readings(TOPIC_FOCUS, req)} :
          /\ resp' = r.out
          /\ TOPIC_FOCUS' = r.table
          /\ Remember(r.out)
    /\ pc' = "sent"
    /\ UNCHANGED <<req, swe>>

NextRepeat == RepeatedRequest \/ readings_observed \/ Close

SpecRepeat == Init /\ [][NextRepeat]_vars


-----------------------------------------------------------------------------
(* The whole server: chart and reading requests in any order *)

NextServer == NextChart \/ NextRepeat

SpecServer == Init /\ [][NextServer]_vars

-----------------------------------------------------------------------------
(* Claims about the chart pipeline (checked under SpecChart) *)

ChartHandled == pc = "sent" /\ req.path = "/chart"

IsValidationError(r) ==
    r.kind = "error" /\ r.exc = "HTTPException" /\ r.status = 422

\* The placements of a chart response: the ten bodies and the ascendant.
PlacementsOf(r) ==
    {r.planets[p] : p \in DOMAIN r.planets} \cup {r.ascendant}

\* The raw longitudes the adapter returned for a chart response.
RawOf(r, p) == swe.lon[PlanetIndex(p)]

\* floor((L mod 360) / 30) over the reals.
ExactSignIndex(lon) == (lon % Deg(360)) \div Deg(30)

\* C1: a chart request with no timezone identifier (absent or empty) and a
\* valid date and time always fails with a ValidationError (HTTP 422), never
\* with another error and never with a chart.
C1_MissingTzIsValidationError ==
    (ChartHandled /\ ~TruthyA(req.birth.tz) /\ parse_local_datetime(req.birth).ok)
        => IsValidationError(resp)

\* C7: whatever raw longitudes the adapter returns (negative and >= 360
\* included), every sign lookup stays in range and the stored sign of each
\* body and of the ascendant is SIGNS_EN[floor((L mod 360) / 30)].
C7_SignIndexInRange ==
    (ChartHandled /\ swe.failAt = 0)
        => /\ resp.kind = "chart"
           /\ \A p \in BODIES :
                 resp.planets[p].sign = SIGNS_EN[ExactSignIndex(RawOf(resp, p)) + 1]
           /\ resp.ascendant.sign = SIGNS_EN[ExactSignIndex(swe.asc) + 1]

\* C8: in every chart returned, the longitude of each body and of the
\* ascendant lies in [0, 360).
C8_LongitudeNormalized ==
    (ChartHandled /\ resp.kind = "chart")
        => \A pl \in PlacementsOf(resp) :
              pl.longitude >= 0 /\ pl.longitude < Deg(360)

\* C9: every placement of a chart response carries degreeInSign in [0, 30)
\* and sign_index * 30 + degreeInSign is the normalized longitude.
C9_DegreeInSignRoundTrip ==
    (ChartHandled /\ resp.kind = "chart")
        => \A pl \in PlacementsOf(resp) :
              /\ "degreeInSign" \in DOMAIN pl
              /\ pl.degreeInSign >= 0 /\ pl.degreeInSign < Deg(30)
              /\ zodiac_sign_index(pl.longitude) * Deg(30) + pl.degreeInSign
                    = PyMod(pl.longitude, Deg(360))

\* C10: with a valid date, time and timezone but latitude or longitude
\* absent, the request fails with a ValidationError; and every chart that is
\* returned holds all ten bodies, an ascendant placement and the metadata.
C10_NoPartialChart ==
    /\ (ChartHandled /\ local_to_utc(req.birth).ok /\ MissingLatLon(req.birth))
          => IsValidationError(resp)
    /\ (ChartHandled /\ resp.kind = "chart")
          => /\ DOMAIN resp.planets = BODIES
             /\ \A p \in BODIES :
                   DOMAIN resp.planets[p] = {"longitude", "sign"}
             /\ DOMAIN resp.ascendant = {"longitude", "sign"}
             /\ "meta" \in DOMAIN resp
             /\ DOMAIN resp.meta = {"birth_local", "tz", "birth_utc"}

\* A request with a valid date, time and zone and a longitude but no
\* latitude was refused.
C10_Witness ==
    /\ ChartHandled
    /\ local_to_utc(req.birth).ok
    /\ ~req.birth.lat.some /\ req.birth.lon.some
    /\ IsValidationError(resp)

\* C11: when calc_ut (for any of the ten bodies) or houses raises during a
\* chart request, the caller sees an EphemerisError that carries the cause,
\* not the adapter's own exception and not a ValidationError, and no chart.
C11_EphemerisErrorWraps ==
    (ChartHandled /\ swe.failAt >= 1)
        => /\ resp.kind = "error"
           /\ resp.exc = "EphemerisError"
           /\ "cause" \in DOMAIN resp
           /\ ~IsValidationError(resp)

\* Whether a latitude and a longitude are given and one of them lies outside
\* [-90, 90] or [-180, 180].
OutOfRange(b) ==
    /\ b.lat.some /\ b.lon.some
    /\ \/ b.lat.v < -Deg(90) \/ b.lat.v > Deg(90)
       \/ b.lon.v < -Deg(180) \/ b.lon.v > Deg(180)

\* Whether the request got as far as swe.houses(jd, b.lat, b.lon).
HousesCalled ==
    /\ ChartHandled
    /\ swe # NoEph
    /\ PlanetLoop(1, swe, <<>>).ok

\* C12: a chart request with a valid date, time and zone whose latitude or
\* longitude is out of range fails with a ValidationError, and houses is
\* never called with such coordinates.
C12_CoordinatesInRange ==
    (ChartHandled /\ local_to_utc(req.birth).ok /\ OutOfRange(req.birth))
        => /\ IsValidationError(resp)
           /\ ~HousesCalled

-----------------------------------------------------------------------------
(* Claims about readings (checked under SpecRepeat and SpecRead) *)

ReadingHandled == pc = "sent" /\ req.path \in {"/readings", "build_wow_reading"}

\* A call of build_wow_reading has been kept, and a later request has been
\* answered with a reading.
LaterReading ==
    ReadingHandled /\ probe.set /\ probe.since >= 1 /\ resp.kind = "reading"

\* [s["key"] for s in sections]
SectionKeys(sections) == [i \in DOMAIN sections |-> sections[i].key]

\* C2: two calls of build_wow_reading with identical arguments return the
\* identical flattened text, section list and practice text, whatever
\* requests were served in between.
C2_Deterministic ==
    (LaterReading /\ CallOf(req) = probe.args)
        => /\ resp.text = probe.out.text
           /\ resp.sections = probe.out.sections
           /\ resp.wow_practice = probe.out.wow_practice

\* The kept call is repeated after another request has been answered in
\* between.
C2_Witness ==
    /\ LaterReading /\ probe.since = 2
    /\ CallOf(req) = probe.args
    /\ resp.text = probe.out.text

\* C3: two readings with the same clamped topic and depth have the same
\* section keys in the same order, whatever the chart, the language and the
\* timestamp (hence the seed) are.
C3_KeysFromTopicAndDepth ==
    (LaterReading /\ resp.topic = probe.out.topic /\ resp.depth = probe.out.depth)
        => /\ SectionKeys(resp.sections) = SectionKeys(probe.out.sections)
           /\ resp.focus = probe.out.focus

\* The same topic and depth on another day: the same keys, another text.
C3_Witness ==
    /\ LaterReading
    /\ resp.topic = probe.out.topic /\ resp.depth = probe.out.depth
    /\ CallOf(req).chart = probe.args.chart
    /\ DayKey(CallOf(req).now_iso) # DayKey(probe.args.now_iso)
    /\ resp.text # probe.out.text
    /\ SectionKeys(resp.sections) = SectionKeys(probe.out.sections)

NoDuplicates(list) ==
    \A i, j \in DOMAIN list : list[i] = list[j] => i = j

\* `wow` occurs exactly once in the list, as its last element.
WowOnceAndLast(list) ==
    /\ list # <<>>
    /\ \A i \in DOMAIN list : list[i] = "wow" <=> i = Len(list)

\* The keys of `a` occur in `b` in the same relative order.
RECURSIVE IsSubsequence(_, _)
IsSubsequence(a, b) ==
    IF a = <<>> THEN TRUE
    ELSE IF b = <<>> THEN FALSE
    ELSE IF Head(a) = Head(b) THEN IsSubsequence(Tail(a), Tail(b))
    ELSE IsSubsequence(a, Tail(b))

\* C4: the key list of every reading has no key twice and holds `wow` once,
\* as its last element; and for the reading's topic the list built for
\* depth=deep holds every key of the list built for depth=standard in the
\* same relative order.
C4_DeepExtendsStandard ==
    (ReadingHandled /\ resp.kind = "reading")
        => /\ NoDuplicates(resp.focus)
           /\ WowOnceAndLast(resp.focus)
           /\ resp.depth = "deep" =>
                 IsSubsequence(
                    select_focus(TOPIC_FOCUS, resp.topic, "standard").focus,
                    resp.focus)
           /\ resp.depth = "standard" =>
                 IsSubsequence(
                    resp.focus,
                    select_focus(TOPIC_FOCUS, resp.topic, "deep").focus)

\* A deep reading whose list is longer than the topic's configured one.
C4_Witness ==
    /\ ReadingHandled /\ resp.kind = "reading" /\ resp.depth = "deep"
    /\ Len(resp.focus) > Len(TOPIC_FOCUS[resp.topic])

\* The chart and the raw topic, language and depth of a request.
GivenChart(r) == IF r.path = "/readings" THEN ChartOf(r) ELSE r.chart
Normal(o) == IF o.some THEN Strip(Lower(o.v)) ELSE <<>>

\* C5: whatever topic, language and depth a request carries, a reading comes
\* back, with a supported topic (`personal` when the input is not one), a
\* supported language (`en` when unsupported) and a supported depth
\* (`standard` when unsupported).
C5_ClampingTotal ==
    (ReadingHandled /\ ~IsEmptyDict(GivenChart(req)))
        => /\ resp.kind = "reading"
           /\ resp.topic \in TOPIC_NAMES
           /\ Normal(req.topic) \notin TOPICS => resp.topic = "personal"
           /\ resp.lang \in {"en", "it", "es"}
           /\ Normal(req.lang) \notin LANGS => resp.lang = "en"
           /\ resp.depth \in {"standard", "deep"}
           /\ (~req.depth.some \/ req.depth.v \notin {Spell["standard"], Spell["deep"]})
                 => resp.depth = "standard"

\* C6: a reading request whose birth_profile has no chart, or an empty one,
\* is answered with a validation error (HTTP 422) and no reading; a reading
\* comes back only for a non-empty chart.
C6_ChartRequired ==
    (pc = "sent" /\ req.path = "/readings")
        => /\ IsEmptyDict(ChartOf(req))
                 => resp.kind = "error" /\ resp.status = 422
           /\ (IsEmptyDict(ChartOf(req)) /\ ValidReadingRequest(req))
                 => IsValidationError(resp)
           /\ resp.kind = "reading" => ~IsEmptyDict(ChartOf(req))

\* A well-formed request without a chart was refused.
C6_Witness ==
    /\ pc = "sent" /\ req.path = "/readings"
    /\ ValidReadingRequest(req)
    /\ ~req.birth_profile.chart.some
    /\ IsValidationError(resp)

\* Whether the answered request reached build_wow_reading.
BuiltReading ==
    /\ ReadingHandled
    /\ req.path = "/readings"
          => ValidReadingRequest(req) /\ ~IsEmptyDict(ChartOf(req))

\* No line of the text interpolates an empty sign name.
NoEmptySign(text) ==
    \A i \in DOMAIN text :
        text[i][1] # "I18N.fallback_soft"
            => \A j \in DOMAIN text[i][2] : text[i][2][j] # <<>>

\* C13: for every non-empty chart, with whatever signs missing or unknown,
\* build_wow_reading returns a reading, and no section text nor the practice
\* text holds a sentence built around an empty sign name.
C13_MissingSignsDegrade ==
    (BuiltReading /\ ~IsEmptyDict(GivenChart(req)))
        => /\ resp.kind = "reading"
           /\ \A i \in DOMAIN resp.sections : NoEmptySign(resp.sections[i].text)
           /\ NoEmptySign(resp.wow_practice)

\* C14: whatever chart and reading requests have been served, TOPIC_FOCUS is
\* as it was at start-up; and a standard reading served after a deep reading
\* of the same topic is built from the topic's configured list.
C14_TablesUnchanged ==
    /\ TOPIC_FOCUS = TOPIC_FOCUS_0
    /\ (LaterReading /\ probe.out.depth = "deep" /\ resp.depth = "standard"
           /\ resp.topic = probe.out.topic)
          => /\ resp.focus = TOPIC_FOCUS_0[resp.topic]
             /\ SectionKeys(resp.sections)
                   = SubSeq(resp.focus, 1, Len(resp.focus) - 1)

\* A deep reading that got an extra section was kept, and a standard
\* reading of the same topic has been served after it.
C14_Witness ==
    /\ LaterReading
    /\ probe.out.depth = "deep" /\ resp.depth = "standard"
    /\ resp.topic = probe.out.topic
    /\ Len(probe.out.focus) > Len(resp.focus)
    /\ TOPIC_FOCUS = TOPIC_FOCUS_0

\* The tally of one element or modality in exact arithmetic, in tenths.
RECURSIVE ExactTally(_, _, _, _)
ExactTally(signs, table, name, i) ==
    IF i = 0 THEN 0
    ELSE (IF Lookup(table, signs[KEYS[i]]) = name
          THEN PLANET_WEIGHT[KEYS[i]].t ELSE 0)
         + ExactTally(signs, table, name, i - 1)

\* The first name, in the order of `names`, of the greatest exact tally;
\* "None" when every tally is zero.
ExactDominant(signs, table, names) ==
    IF \A i \in DOMAIN names : ExactTally(signs, table, names[i], Len(KEYS)) = 0
    THEN "None"
    ELSE names[CHOOSE i \in DOMAIN names :
                  /\ \A j \in DOMAIN names :
                        ExactTally(signs, table, names[j], Len(KEYS))
                            <= ExactTally(signs, table, names[i], Len(KEYS))
                  /\ \A j \in 1..(i - 1) :
                        ExactTally(signs, table, names[j], Len(KEYS))
                            < ExactTally(signs, table, names[i], Len(KEYS))]

\* C15: the dominant element of a reading is the element of the greatest
\* weighted tally over the placements with a recognised sign, the first in
\* the order fire, earth, air, water on a tie; likewise the dominant
\* modality in the order cardinal, fixed, mutable; both are None when no
\* placement has a recognised sign.
C15_DominantIsFirstMax ==
    (BuiltReading /\ resp.kind = "reading")
        => \A signs \in {ExtractSigns(GivenChart(req), 1)} :
              /\ resp.meta.dominant_element
                    = ExactDominant(signs, ELEMENT, ELEMENTS)
              /\ resp.meta.dominant_modality
                    = ExactDominant(signs, MODALITY, MODALITIES)

NotWow(k) == k # "wow"

\* The lines of sections 1..i: each section's title and text, then a blank
\* line.
RECURSIVE Flattened(_, _)
Flattened(sections, i) ==
    IF i = 0 THEN <<>>
    ELSE Flattened(sections, i - 1)
            \o <<sections[i].title>> \o sections[i].text \o <<Blank>>

\* The generator as the sections of the reading leave it.
GeneratorAfterSections(call, r, signs) ==
    SectionLoop(r.focus, 1,
                stable_rng(<<chart_signature(call.chart), Spell[r.topic],
                             Spell[r.lang], DayKey(call.now_iso)>>),
                <<>>, r.lang, signs, element_modality_profile(signs),
                key_tensions(signs)).rng

\* C16: in every reading the section list holds the keys of the selected
\* list other than `wow`, in order, each under its localized title; the
\* practice text is drawn from the generator as the other sections leave
\* it; and the flattened text is the title, a blank line, each section's
\* title and text followed by a blank line, then the practice title and
\* text, with no blank line at either end.
C16_Layout ==
    (ReadingHandled /\ resp.kind = "reading")
        => /\ SectionKeys(resp.sections) = SelectSeq(resp.focus, NotWow)
           /\ \A i \in DOMAIN resp.sections :
                 resp.sections[i].title
                    = L("I18N.sec", <<resp.lang, resp.sections[i].key>>)
           /\ resp.title = L("I18N.titles", <<resp.lang, resp.topic>>)
           /\ resp.text
                 = <<resp.title, Blank>>
                      \o Flattened(resp.sections, Len(resp.sections))
                      \o <<L("I18N.sec", <<resp.lang, "wow">>)>>
                      \o resp.wow_practice
           /\ resp.text[1] # Blank /\ resp.text[Len(resp.text)] # Blank
           /\ \A signs \in {ExtractSigns(GivenChart(req), 1)} :
                 resp.wow_practice
                    = build_section_text(
                          GeneratorAfterSections(CallOf(req), resp, signs),
                          resp.lang, "wow", signs,
                          element_modality_profile(signs),
                          key_tensions(signs)).text

\* A deep reading of six sections in Italian.
C16_Witness ==
    /\ ReadingHandled /\ resp.kind = "reading"
    /\ resp.lang = "it" /\ Len(resp.sections) = 6
    /\ resp.wow_practice # <<>>
    /\ Len(resp.text) > 2 * Len(resp.sections) + 4

\* How many sections a reading has beyond the standard reading of its topic.
SectionsAdded(r) ==
    Len(r.sections)
        - Len(SelectSeq(select_focus(TOPIC_FOCUS, r.topic, "standard").focus,
                        NotWow))

\* C17: for every topic, the deep reading has at least one and at most two
\* sections more than the standard reading of the same topic.
C17_DeepAddsSections ==
    (ReadingHandled /\ resp.kind = "reading" /\ resp.depth = "deep")
        => SectionsAdded(resp) >= 1 /\ SectionsAdded(resp) <= 2

\* The kept call and the answered call differ only in depth: same chart,
\* topic, language and now_iso, hence the same seed.
DepthPair ==
    /\ LaterReading
    /\ CallOf(req).depth # probe.args.depth
    /\ [CallOf(req) EXCEPT !.depth = probe.args.depth] = probe.args

\* C18: the standard and the deep reading of the same seed have the same text
\* under every section key they share, and the same practice text.
C18_DepthKeepsChoices ==
    DepthPair
        => /\ \A i \in DOMAIN resp.sections : \A j \in DOMAIN probe.out.sections :
                  resp.sections[i].key = probe.out.sections[j].key
                      => resp.sections[i].text = probe.out.sections[j].text
           /\ resp.wow_practice = probe.out.wow_practice

====
